---- MODULE Spec2Model ----
(***************************************************************************)
(* A model of the mapper toolkit (GavinMendelGleason/mapper): the record   *)
(* store (context.py), the embedding pipeline (embeddings.py), the         *)
(* embedding reader (visualization.py) and the command line driver         *)
(* (cli.py).                                                               *)
(*                                                                         *)
(* Python strings are sequences of one-character strings, so formatting,   *)
(* splitting and pattern matching are computed character by character.     *)
(***************************************************************************)
EXTENDS Integers, Sequences, FiniteSets, TLC

(***************************************************************************)
(* Bounds of the model.                                                    *)
(***************************************************************************)
MaxChunks == 3
MaxChunkId == 1
MaxBatch == 3

(***************************************************************************)
(* Generic helpers on sequences.                                           *)
(***************************************************************************)
Min(a, b) == IF a < b THEN a ELSE b

Range(s) == {s[k] : k \in 1..Len(s)}

RECURSIVE SeqsUpTo(_, _)
SeqsUpTo(S, n) ==
    IF n = 0 THEN {<<>>}
    ELSE LET shorter == SeqsUpTo(S, n - 1)
         IN  shorter \cup {Append(s, x) : s \in {t \in shorter : Len(t) = n - 1}, x \in S}

(***************************************************************************)
(* Python values: str(int), int(str), str.split.                           *)
(***************************************************************************)
Digits == <<"0", "1", "2", "3", "4", "5", "6", "7", "8", "9">>

DigitChars == Range(Digits)

DigitVal(c) == CHOOSE d \in 0..9 : Digits[d + 1] = c

\* str(n) for a non-negative int n: its decimal digits
RECURSIVE DecStr(_)
DecStr(n) == IF n < 10 THEN <<Digits[n + 1]>>
             ELSE Append(DecStr(n \div 10), Digits[(n % 10) + 1])

\* int(s) accepts a non-empty run of decimal digits here; anything else is a ValueError
IntOk(s) == Len(s) > 0 /\ \A k \in 1..Len(s) : s[k] \in DigitChars

RECURSIVE ParseInt(_)
ParseInt(s) == IF Len(s) = 0 THEN 0
               ELSE 10 * ParseInt(SubSeq(s, 1, Len(s) - 1)) + DigitVal(s[Len(s)])

\* s.split(sep): the pieces of s between the occurrences of the character sep
RECURSIVE Split(_, _)
Split(s, sep) ==
    IF \A k \in 1..Len(s) : s[k] # sep THEN <<s>>
    ELSE LET p == CHOOSE k \in 1..Len(s) :
                      s[k] = sep /\ \A m \in 1..(k - 1) : s[m] # sep
         IN  <<SubSeq(s, 1, p - 1)>> \o Split(SubSeq(s, p + 1, Len(s)), sep)

(***************************************************************************)
(* Cable ids.  A cable id is whatever pandas read from the first column:   *)
(* a str, or an int when the column is numeric.  str(id) is what an        *)
(* f-string renders.                                                       *)
(***************************************************************************)
StrId(s) == [kind |-> "str", s |-> s, n |-> 0]

IntId(n) == [kind |-> "int", s |-> <<>>, n |-> n]

PyStr(id) == IF id.kind = "int" THEN DecStr(id.n) ELSE id.s

\* ids of a text column, one of them containing the separator of the key, and
\* ids of a numeric column
StrCableIds == {StrId(<<"a">>), StrId(<<"b">>), StrId(<<"a", "_", "b">>)}

IntCableIds == {IntId(7), IntId(12)}

\* the text of the chunk at position p of the list: the texts are pairwise
\* different, so a text sent in the wrong call is seen
TextAt(p) == <<"t">> \o DecStr(p)

\* CableChunk: the fields the embedding pipeline reads
MakeChunks(l) ==
    [p \in 1..Len(l) |-> [cable_id |-> l[p][1], chunk_id |-> l[p][2], text |-> TextAt(p)]]

\* pandas gives the id column one type, so a chunk list has ids of one kind
ChunkLists ==
    {MakeChunks(l) : l \in SeqsUpTo(StrCableIds \X (0..MaxChunkId), MaxChunks)
                             \cup SeqsUpTo(IntCableIds \X (0..MaxChunkId), MaxChunks)}

(***************************************************************************)
(* File system.  A path is a sequence of components in which "/" is the    *)
(* separator.                                                              *)
(***************************************************************************)
NoPath == <<>>

OutputPaths == {<<"e.pkl">>,
                <<"out", "/", "e.pkl">>,
                <<"new", "/", "e.pkl">>,
                <<"ro", "/", "sub", "/", "e.pkl">>}

\* directories that exist when the program starts; those in ReadOnlyDirs
\* accept no new entry
ExistingDirs == {<<"out">>, <<"ro">>}

ReadOnlyDirs == {<<"ro">>}

LastSlash(p) == IF \E k \in 1..Len(p) : p[k] = "/"
                THEN CHOOSE k \in 1..Len(p) :
                         p[k] = "/" /\ \A m \in (k + 1)..Len(p) : p[m] # "/"
                ELSE 0

\* os.path.dirname: everything before the last separator, "" when there is none
OsPathDirname(p) == SubSeq(p, 1, LastSlash(p) - 1)

\* os.makedirs(d, exist_ok=True): the directories afterwards, or the error raised
RECURSIVE Makedirs(_, _)
Makedirs(d, ds) ==
    IF d = <<>> THEN [err |-> "FileNotFoundError", dirs |-> ds]
    ELSE IF d \in ds THEN [err |-> "none", dirs |-> ds]
    ELSE LET head == OsPathDirname(d)
             up == IF head # <<>> /\ head \notin ds
                   THEN Makedirs(head, ds)
                   ELSE [err |-> "none", dirs |-> ds]
         IN  IF up.err # "none" THEN up
             ELSE IF head \in ReadOnlyDirs THEN [err |-> "PermissionError", dirs |-> up.dirs]
             ELSE [err |-> "none", dirs |-> up.dirs \cup {d}]

\* opening path for writing fails when its directory accepts no new entry
CanWrite(path) == OsPathDirname(path) \notin ReadOnlyDirs

(***************************************************************************)
(* context.py: the record store.  A source file is a sequence of rows, a   *)
(* row a sequence of fields, a field a string.                             *)
(***************************************************************************)
\* the cell pandas puts where a row has no field
NaN == <<"<NaN>">>

NCols == 8

\* pd.read_csv(path, header=None): the first row fixes the number of columns;
\* a later row with fewer fields is padded with NaN, one with more fields is a
\* ParserError; a file without rows is an EmptyDataError
PadRow(row, width) == [c \in 1..width |-> IF c <= Len(row) THEN row[c] ELSE NaN]

ReadCsv(f) ==
    IF Len(f) = 0 THEN [err |-> "EmptyDataError", width |-> 0, rows |-> <<>>]
    ELSE IF \E r \in 2..Len(f) : Len(f[r]) > Len(f[1])
    THEN [err |-> "ParserError", width |-> 0, rows |-> <<>>]
    ELSE [err |-> "none", width |-> Len(f[1]),
          rows |-> [r \in 1..Len(f) |-> PadRow(f[r], Len(f[1]))]]

\* cables_df / the registered table: None, or a frame of rows
NoDf == [some |-> FALSE, rows |-> <<>>]

Df(rows) == [some |-> TRUE, rows |-> rows]

\* load_data(path): the frame it stores and registers, or the error it raises.
\* With at least 8 columns the 8 names are assigned, which pandas refuses
\* (ValueError, length mismatch) unless the frame has exactly 8 columns.
LoadOutcome(f) ==
    LET rd == ReadCsv(f)
    IN  IF rd.err # "none" THEN [err |-> rd.err, df |-> NoDf]
        ELSE IF rd.width >= NCols
             THEN IF rd.width = NCols THEN [err |-> "none", df |-> Df(rd.rows)]
                  ELSE [err |-> "ValueError", df |-> NoDf]
             ELSE [err |-> "ValueError", df |-> NoDf]

(***************************************************************************)
(* context.py: search_cables and the SQL it hands to the query engine.     *)
(***************************************************************************)
ColId == 1

ColDate == 2

ColReference == 3

ColSource == 4

ColClassification == 5

ColContent == 8

\* an absent filter: None, or the empty string argparse passes for --search ""
\* (both fail the `if text:` tests)
NoFilter == <<>>

Quote == "'"

\* code points of the characters of the model, for the byte order of strings
Ord(c) == CASE c = "%" -> 37
            [] c = "'" -> 39
            [] c = "_" -> 95
            [] c = "a" -> 97
            [] c = "b" -> 98
            [] OTHER -> 127

\* a <= b in the engine's order on Utf8 values (bytewise, shorter prefix first)
RECURSIVE StrLe(_, _)
StrLe(a, b) ==
    IF Len(a) = 0 THEN TRUE
    ELSE IF Len(b) = 0 THEN FALSE
    ELSE IF a[1] = b[1] THEN StrLe(Tail(a), Tail(b))
    ELSE Ord(a[1]) < Ord(b[1])

\* value LIKE pattern: % matches any run of characters, _ any one character
RECURSIVE Like(_, _)
Like(v, pat) ==
    IF Len(pat) = 0 THEN Len(v) = 0
    ELSE IF pat[1] = "%" THEN Like(v, Tail(pat)) \/ (Len(v) > 0 /\ Like(Tail(v), pat))
    ELSE IF pat[1] = "_" THEN Len(v) > 0 /\ Like(Tail(v), Tail(pat))
    ELSE Len(v) > 0 /\ v[1] = pat[1] /\ Like(Tail(v), Tail(pat))

\* the engine's reading of the characters interpolated between two quotes:
\* '' stands for one quote; a quote on its own ends the literal early and
\* leaves the number of quotes of the query odd, which no statement survives
RECURSIVE Balanced(_)
Balanced(t) ==
    IF Len(t) = 0 THEN TRUE
    ELSE IF t[1] # Quote THEN Balanced(Tail(t))
    ELSE Len(t) >= 2 /\ t[2] = Quote /\ Balanced(SubSeq(t, 3, Len(t)))

RECURSIVE Unquote(_)
Unquote(t) ==
    IF Len(t) = 0 THEN <<>>
    ELSE IF t[1] # Quote THEN <<t[1]>> \o Unquote(Tail(t))
    ELSE <<Quote>> \o Unquote(SubSeq(t, 3, Len(t)))

\* conditions.append(...): one condition per supplied filter, the value
\* interpolated as it is
Conditions(f) ==
    (IF f.text # NoFilter
     THEN <<[col |-> ColContent, op |-> "LIKE", lit |-> <<"%">> \o f.text \o <<"%">>]>>
     ELSE <<>>)
    \o (IF f.date_from # NoFilter
        THEN <<[col |-> ColDate, op |-> ">=", lit |-> f.date_from]>> ELSE <<>>)
    \o (IF f.date_to # NoFilter
        THEN <<[col |-> ColDate, op |-> "<=", lit |-> f.date_to]>> ELSE <<>>)
    \o (IF f.classification # NoFilter
        THEN <<[col |-> ColClassification, op |-> "=", lit |-> f.classification]>> ELSE <<>>)
    \o (IF f.source # NoFilter
        THEN <<[col |-> ColSource, op |-> "LIKE", lit |-> <<"%">> \o f.source \o <<"%">>]>>
        ELSE <<>>)

\* one condition on one row; a comparison with a missing cell is not true
CondHolds(row, c) ==
    /\ row[c.col] # NaN
    /\ CASE c.op = "LIKE" -> Like(row[c.col], Unquote(c.lit))
         [] c.op = ">=" -> StrLe(Unquote(c.lit), row[c.col])
         [] c.op = "<=" -> StrLe(row[c.col], Unquote(c.lit))
         [] OTHER -> row[c.col] = Unquote(c.lit)

\* WHERE c1 AND c2 ... (1=1 when there is no condition): the statement is
\* refused when a literal is unbalanced, else the matching rows, by position
WhereOutcome(rows, conds) ==
    IF \E k \in 1..Len(conds) : ~Balanced(conds[k].lit)
    THEN [err |-> "QueryError", match |-> {}]
    ELSE [err |-> "none",
          match |-> {r \in 1..Len(rows) :
                        \A k \in 1..Len(conds) : CondHolds(rows[r], conds[k])}]

SearchOutcome(rows, f) == WhereOutcome(rows, Conditions(f))

\* SELECT id, date, reference_number, source, classification, content
Project(row) == <<row[ColId], row[ColDate], row[ColReference], row[ColSource],
                  row[ColClassification], row[ColContent]>>

\* the frame of the rows at the positions o, in that order
AsFrame(rows, o) == [k \in 1..Len(o) |-> [pos |-> o[k], row |-> Project(rows[o[k]])]]

\* ORDER BY date: ascending in the engine's order, missing dates last, rows
\* with equal dates in any order.  An ordering is a sequence of row positions.
DateLe(rows, r1, r2) ==
    \/ rows[r2][ColDate] = NaN
    \/ rows[r1][ColDate] # NaN /\ StrLe(rows[r1][ColDate], rows[r2][ColDate])

RECURSIVE Orderings(_)
Orderings(S) ==
    IF S = {} THEN {<<>>}
    ELSE UNION {{<<x>> \o o : o \in Orderings(S \ {x})} : x \in S}

OrderByDate(rows, S) ==
    {o \in Orderings(S) : \A k \in 1..(Len(o) - 1) : DateLe(rows, o[k], o[k + 1])}

(***************************************************************************)
(* chunking.py (not among the sources; after sections 3 and 4.1 of the     *)
(* specification): chunk_cable.                                            *)
(***************************************************************************)
SentenceEnds == {".", "!", "?"}

Newline == "\n"

\* the position, among from..to, where the chunk ending after `hard`
\* characters is extended to: the end of the first paragraph break, else the
\* first line break, else the first sentence end; `hard` when there is none
BoundaryAfter(content, hard, to) ==
    LET paras == {p \in (hard + 1)..(to - 1) : content[p] = Newline /\ content[p + 1] = Newline}
        lines == {p \in (hard + 1)..to : content[p] = Newline}
        sents == {p \in (hard + 1)..to : content[p] \in SentenceEnds}
        First(S) == CHOOSE p \in S : \A q \in S : p <= q
    IN  IF paras # {} THEN First(paras) + 1
        ELSE IF lines # {} THEN First(lines)
        ELSE IF sents # {} THEN First(sents)
        ELSE hard

\* where the chunk starting at offset off ends: after chunk_size characters,
\* moved forward to a boundary no more than chunk_size characters further on
ChunkEnd(content, off, size) ==
    IF off + size >= Len(content) THEN Len(content)
    ELSE BoundaryAfter(content, off + size, Min(off + 2 * size, Len(content)))

RECURSIVE ChunkFromGap(_, _, _, _, _, _)
ChunkFromGap(cable_id, content, size, metadata, off, k) ==
    IF off >= Len(content) THEN <<>>
    ELSE LET end == ChunkEnd(content, off, size)
         IN  <<[cable_id |-> cable_id,
                chunk_id |-> k,
                text |-> SubSeq(content, off + 1, end),
                start_offset |-> off,
                end_offset |-> end,
                metadata |-> metadata]>>
             \o ChunkFromGap(cable_id, content, size, metadata, end + 1, k + 1)

RECURSIVE ChunkFrom(_, _, _, _, _, _)
ChunkFrom(cable_id, content, size, metadata, off, k) ==
    IF off >= Len(content) THEN <<>>
    ELSE LET end == ChunkEnd(content, off, size)
         IN  <<[cable_id |-> cable_id,
                chunk_id |-> k,
                text |-> SubSeq(content, off + 1, end),
                start_offset |-> off,
                end_offset |-> end,
                metadata |-> metadata]>>
             \o ChunkFrom(cable_id, content, size, metadata, end, k + 1)

\* chunk_cable(cable_id, content, chunk_size, metadata)
ChunkCable(cable_id, content, size, metadata) ==
    ChunkFrom(cable_id, content, size, metadata, 0, 0)

(***************************************************************************)
(* context.py: chunk_all_cables.                                           *)
(***************************************************************************)
\* row["id"]: pandas reads a column of digit strings as ints
IdOf(rows, r) ==
    IF \A q \in 1..Len(rows) : rows[q][ColId] # NaN /\ IntOk(rows[q][ColId])
    THEN IntId(ParseInt(rows[r][ColId]))
    ELSE StrId(rows[r][ColId])

MetadataOf(row) ==
    [date |-> row[ColDate], source |-> row[ColSource],
     classification |-> row[ColClassification]]

RECURSIVE ChunkRowsPrepend(_, _, _)
ChunkRowsPrepend(rows, size, r) ==
    IF r > Len(rows) THEN <<>>
    ELSE ChunkRowsPrepend(rows, size, r + 1)
             \o ChunkCable(IdOf(rows, r), rows[r][ColContent], size, MetadataOf(rows[r]))

RECURSIVE ChunkRows(_, _, _)
ChunkRows(rows, size, r) ==
    IF r > Len(rows) THEN <<>>
    ELSE ChunkCable(IdOf(rows, r), rows[r][ColContent], size, MetadataOf(rows[r]))
             \o ChunkRows(rows, size, r + 1)

\* chunk_all_cables(chunk_size): the chunk list, or the error raised: no data
\* loaded, a chunk size that is not positive, a content cell that is no string
ChunkAllOutcome(df, size) ==
    IF ~df.some THEN [err |-> "ValueError", chunks |-> <<>>]
    ELSE IF size <= 0 THEN [err |-> "InvalidConfiguration", chunks |-> <<>>]
    ELSE IF \E r \in 1..Len(df.rows) : df.rows[r][ColContent] = NaN
         THEN [err |-> "TypeError", chunks |-> <<>>]
    ELSE [err |-> "none", chunks |-> ChunkRows(df.rows, size, 1)]

(***************************************************************************)
(* State.                                                                  *)
(***************************************************************************)
VARIABLES
    pc,           \* position of the run
    chunks,       \* the CableChunk list handed to generate_embeddings_for_chunks
    batch_size,   \* parsed_args.batch_size
    output,       \* parsed_args.output (NoPath when absent)
    i,            \* loop variable of generate_embeddings_for_chunks
    results,      \* its dict, a set of [key, vec] with unique keys
    calls,        \* the text lists model.encode has received, in call order
    returned,     \* TRUE once generate_embeddings_for_chunks has returned
    embeddings,   \* the mapping it returned to main
    exc,          \* the exception in flight or handled ("none" when there is none)
    save_called,  \* TRUE once save_embeddings has been entered
    dirs,         \* directories of the file system
    files,        \* files written: a set of [path, rows]
    loaded,       \* the rows load_embeddings read back
    ret,          \* what main returned (NoRet before it returns)
    csv,          \* the rows of the source file last handed to load_data
    cables_df,    \* CablesContext.cables_df
    table,        \* the "cables" table registered with the query engine
    load_exc,     \* what the last load_data raised ("none" when it returned)
    prev_df,      \* cables_df before the last load_data
    prev_table,   \* the registered table before the last load_data
    filters,      \* the five filter arguments of search_cables / of the command line
    searched,     \* TRUE once search_cables or execute_query has run
    result,       \* the frame it returned: a sequence of [pos, row]
    shown,        \* the rows main printed or exported
    limit_raw,    \* the text given to --limit (NoArg when absent)
    limit,        \* parsed_args.limit
    visualize,    \* parsed_args.visualize
    embeddings_file, \* parsed_args.embeddings_file (NoPath when absent)
    perplexity,   \* parsed_args.perplexity
    csv_exists,   \* whether parsed_args.csv_file names an existing file
    chunk,        \* parsed_args.chunk
    embed,        \* parsed_args.embed
    chunk_size,   \* parsed_args.chunk_size
    query,        \* parsed_args.query (NoQuery when absent)
    content       \* the content argument of chunk_cable

embedVars == <<chunks, batch_size, output, i, results, calls, returned,
               embeddings, save_called, dirs, files, loaded>>

storeVars == <<csv, cables_df, table, load_exc, prev_df, prev_table>>

searchVars == <<filters, searched, result, shown>>

argVars == <<limit_raw, limit, visualize, embeddings_file, perplexity, csv_exists,
             chunk, embed, chunk_size, query>>

vars == <<pc, exc, ret, embedVars, storeVars, searchVars, argVars, content>>

NoRet == -1

(***************************************************************************)
(* The values of the parts of the state a run does not touch.              *)
(***************************************************************************)
StoreIdle ==
    /\ csv = <<>>
    /\ cables_df = NoDf
    /\ table = NoDf
    /\ load_exc = "none"
    /\ prev_df = NoDf
    /\ prev_table = NoDf

NoFilters == [text |-> NoFilter, date_from |-> NoFilter, date_to |-> NoFilter,
              classification |-> NoFilter, source |-> NoFilter]

SearchIdle ==
    /\ filters = NoFilters
    /\ searched = FALSE
    /\ result = <<>>
    /\ shown = <<>>

NoArg == <<>>

NoQuery == "none"

DefaultLimit == 100

DefaultPerplexity == 30

DefaultChunkSize == 1000

\* the options a run does not read, at their defaults
ArgsIdle ==
    /\ limit_raw = NoArg
    /\ limit = DefaultLimit
    /\ visualize = FALSE
    /\ embeddings_file = NoPath
    /\ perplexity = DefaultPerplexity
    /\ csv_exists = TRUE
    /\ chunk = FALSE
    /\ embed = FALSE
    /\ chunk_size = DefaultChunkSize
    /\ query = NoQuery

EmbedIdle ==
    /\ chunks = <<>>
    /\ batch_size = 1
    /\ output = NoPath
    /\ i = 0
    /\ results = {}
    /\ calls = <<>>
    /\ returned = FALSE
    /\ embeddings = {}
    /\ save_called = FALSE
    /\ dirs = ExistingDirs
    /\ files = {}
    /\ loaded = {}

(***************************************************************************)
(* embeddings.py: generate_embeddings_for_chunks.                          *)
(***************************************************************************)
\* chunk_id = f"{chunk.cable_id}_{chunk.chunk_id}"
ChunkKey(ch) == PyStr(ch.cable_id) \o <<"_">> \o DecStr(ch.chunk_id)

\* the slice with an inclusive upper end
BatchAtInclusive(cs, at, b) == SubSeq(cs, at + 1, Min(at + b + 1, Len(cs)))

\* batch = chunks[i:i+batch_size], i counted from 0
BatchAt(cs, at, b) == SubSeq(cs, at + 1, Min(at + b, Len(cs)))

\* texts = [chunk.text for chunk in batch]
TextsOf(batch) == [j \in 1..Len(batch) |-> batch[j].text]

\* what the backend returns for its call number k (0-based) on n texts: one
\* vector per text, the vector at index j (0-based) being <<k, j>>
BackendVectors(k, n) == [j \in 1..n |-> <<k, j - 1>>]

\* results[key] = vec
DictSet(d, key, vec) == {e \in d : e.key # key} \cup {[key |-> key, vec |-> vec]}

\* the store loop reading batch_embeddings from its far end
RECURSIVE StoreBatchReversed(_, _, _, _)
StoreBatchReversed(d, batch, vecs, j) ==
    IF j > Len(batch) THEN d
    ELSE StoreBatchReversed(DictSet(d, ChunkKey(batch[j]), vecs[Len(batch) + 1 - j]),
                            batch, vecs, j + 1)

\* for j, chunk in enumerate(batch): results[chunk_id] = batch_embeddings[j]
RECURSIVE StoreBatch(_, _, _, _)
StoreBatch(d, batch, vecs, j) ==
    IF j > Len(batch) THEN d
    ELSE StoreBatch(DictSet(d, ChunkKey(batch[j]), vecs[j]), batch, vecs, j + 1)

\* one iteration of the loop whose encode call succeeds
EmbedBatchOk ==
    /\ pc = "embed"
    /\ i < Len(chunks)
    /\ LET batch == BatchAt(chunks, i, batch_size)
           vecs == BackendVectors(Len(calls), Len(batch))
       IN  /\ calls' = Append(calls, TextsOf(batch))
           /\ results' = StoreBatch(results, batch, vecs, 1)
    /\ i' = i + batch_size
    /\ UNCHANGED <<content, pc, chunks, batch_size, output, returned, embeddings, exc,
                   save_called, dirs, files, loaded, ret>>
    /\ UNCHANGED <<content, storeVars, searchVars, argVars>>

\* an iteration that swallows the failure of encode and goes on
EmbedBatchSkip ==
    /\ pc = "embed"
    /\ i < Len(chunks)
    /\ calls' = Append(calls, TextsOf(BatchAt(chunks, i, batch_size)))
    /\ exc' = "EmbeddingBackendError"
    /\ i' = i + batch_size
    /\ UNCHANGED <<content, pc, chunks, batch_size, output, results, returned, embeddings,
                   save_called, dirs, files, loaded, ret>>
    /\ UNCHANGED <<content, storeVars, searchVars, argVars>>

\* one iteration whose encode call raises: the exception leaves the function
EmbedBatchFail ==
    /\ pc = "embed"
    /\ i < Len(chunks)
    /\ calls' = Append(calls, TextsOf(BatchAt(chunks, i, batch_size)))
    /\ exc' = "EmbeddingBackendError"
    /\ pc' = "except"
    /\ UNCHANGED <<content, chunks, batch_size, output, i, results, returned, embeddings,
                   save_called, dirs, files, loaded, ret>>
    /\ UNCHANGED <<content, storeVars, searchVars, argVars>>

\* the range is exhausted: return results
EmbedReturn ==
    /\ pc = "embed"
    /\ i >= Len(chunks)
    /\ returned' = TRUE
    /\ embeddings' = results
    /\ pc' = "embedded"
    /\ UNCHANGED <<content, chunks, batch_size, output, i, results, calls, exc,
                   save_called, dirs, files, loaded, ret>>
    /\ UNCHANGED <<content, storeVars, searchVars, argVars>>

(***************************************************************************)
(* embeddings.py: save_embeddings.                                         *)
(***************************************************************************)
\* cable_id, chunk_id_num = chunk_id.split('_') unpacks exactly two pieces,
\* and int(chunk_id_num) must parse
KeyOk(key) == Len(Split(key, "_")) = 2 /\ IntOk(Split(key, "_")[2])

\* {'cable_id': cable_id, 'chunk_id': int(chunk_id_num), 'embedding': embedding}
SaveRecord(e) ==
    [cable_id |-> StrId(Split(e.key, "_")[1]),
     chunk_id |-> ParseInt(Split(e.key, "_")[2]),
     embedding |-> e.vec]

\* the outcome of save_embeddings(embs, path) on a file system with directories ds
SaveOutcome(embs, path, ds) ==
    IF \E e \in embs : ~KeyOk(e.key)
    THEN [err |-> "ValueError", dirs |-> ds, written |-> FALSE]
    ELSE LET mk == Makedirs(OsPathDirname(path), ds)
         IN  IF mk.err # "none" THEN [err |-> mk.err, dirs |-> mk.dirs, written |-> FALSE]
             ELSE IF ~CanWrite(path)
                  THEN [err |-> "PermissionError", dirs |-> mk.dirs, written |-> FALSE]
             ELSE [err |-> "none", dirs |-> mk.dirs, written |-> TRUE]

\* df.to_pickle(output_path) replaces the file
WriteFile(fs, path, rows) == {f \in fs : f.path # path} \cup {[path |-> path, rows |-> rows]}

\* cli.py 190-191, 195: output given, save_embeddings succeeds, main returns 0
SaveEmbeddings ==
    /\ pc = "embedded"
    /\ output # NoPath
    /\ LET out == SaveOutcome(embeddings, output, dirs)
       IN  /\ out.err = "none"
           /\ dirs' = out.dirs
           /\ files' = WriteFile(files, output, {SaveRecord(e) : e \in embeddings})
    /\ save_called' = TRUE
    /\ ret' = 0
    /\ pc' = "done"
    /\ UNCHANGED <<content, chunks, batch_size, output, i, results, calls, returned,
                   embeddings, exc, loaded>>
    /\ UNCHANGED <<content, storeVars, searchVars, argVars>>

\* save_embeddings raises
SaveEmbeddingsFail ==
    /\ pc = "embedded"
    /\ output # NoPath
    /\ LET out == SaveOutcome(embeddings, output, dirs)
       IN  /\ out.err # "none"
           /\ dirs' = out.dirs
           /\ exc' = out.err
    /\ save_called' = TRUE
    /\ pc' = "except"
    /\ UNCHANGED <<content, chunks, batch_size, output, i, results, calls, returned,
                   embeddings, files, loaded, ret>>
    /\ UNCHANGED <<content, storeVars, searchVars, argVars>>

\* cli.py 192-195: no output path, a warning, main returns 0
NoOutputWarning ==
    /\ pc = "embedded"
    /\ output = NoPath
    /\ ret' = 0
    /\ pc' = "done"
    /\ UNCHANGED <<content, chunks, batch_size, output, i, results, calls, returned,
                   embeddings, exc, save_called, dirs, files, loaded>>
    /\ UNCHANGED <<content, storeVars, searchVars, argVars>>

\* cli.py 228-230: except Exception: print, return 1
MainExcept ==
    /\ pc = "except"
    /\ ret' = 1
    /\ pc' = "done"
    /\ UNCHANGED <<content, chunks, batch_size, output, i, results, calls, returned,
                   embeddings, exc, save_called, dirs, files, loaded>>
    /\ UNCHANGED <<content, storeVars, searchVars, argVars>>

(***************************************************************************)
(* cli.py: main, from the command line to the exit status.                 *)
(***************************************************************************)
\* argparse type=int: int(text), a run of digits with an optional minus sign;
\* anything else makes parse_args exit with status 2
IntArgOk(t) == IntOk(t) \/ (Len(t) >= 2 /\ t[1] = "-" /\ IntOk(Tail(t)))

IntArg(t) == IF t[1] = "-" THEN 0 - ParseInt(Tail(t)) ELSE ParseInt(t)

\* result.head(n): the first n rows, all but the last -n when n is negative
DfHead(frame, n) ==
    IF n >= 0 THEN SubSeq(frame, 1, Min(n, Len(frame)))
    ELSE SubSeq(frame, 1, Len(frame) + n)

\* if parsed_args.limit and len(result) > parsed_args.limit: result.head(limit)
ApplyLimit(frame, n) == IF n # 0 /\ Len(frame) > n THEN DfHead(frame, n) ELSE frame

\* load_embeddings, TSNE and savefig: the error raised, or the directories
\* afterwards.  TSNE refuses a perplexity that is not below the number of rows.
VisualizeOutcome(path, perp, out, fs, ds) ==
    IF \A f \in fs : f.path # path
    THEN [err |-> "FileNotFoundError", dirs |-> ds, written |-> FALSE]
    ELSE LET rows == (CHOOSE f \in fs : f.path = path).rows
         IN  IF perp >= Cardinality(rows)
             THEN [err |-> "ValueError", dirs |-> ds, written |-> FALSE]
             ELSE IF out = NoPath THEN [err |-> "none", dirs |-> ds, written |-> FALSE]
             ELSE LET mk == Makedirs(OsPathDirname(out), ds)
                  IN  IF mk.err # "none"
                      THEN [err |-> mk.err, dirs |-> mk.dirs, written |-> FALSE]
                      ELSE IF ~CanWrite(out)
                           THEN [err |-> "PermissionError", dirs |-> mk.dirs, written |-> FALSE]
                      ELSE [err |-> "none", dirs |-> mk.dirs, written |-> TRUE]

\* result.to_csv(path): the directory must be there and accept the file
ToCsvErr(path, ds) ==
    LET d == OsPathDirname(path)
    IN  IF d # <<>> /\ d \notin ds THEN "OSError"
        ELSE IF ~CanWrite(path) THEN "PermissionError"
        ELSE "none"

\* the statements given to --query: one the engine runs, returning every row
\* of cables in table order, and one it refuses
GoodQuery == "SELECT * FROM cables"

BadQuery == "SELEC"

ExecuteQueryOutcome(q, rows) ==
    IF q = GoodQuery
    THEN [err |-> "none", frame |-> [r \in 1..Len(rows) |-> [pos |-> r, row |-> rows[r]]]]
    ELSE [err |-> "QueryError", frame |-> <<>>]

\* parse_args rejects the command line: SystemExit(2) leaves main
ParseArgsReject ==
    /\ pc = "start"
    /\ limit_raw # NoArg
    /\ ~IntArgOk(limit_raw)
    /\ exc' = "SystemExit"
    /\ pc' = "raised"
    /\ UNCHANGED <<content, ret, embedVars, storeVars, searchVars, argVars>>

ParseArgsOk ==
    /\ pc = "start"
    /\ limit_raw = NoArg \/ IntArgOk(limit_raw)
    /\ limit' = IF limit_raw = NoArg THEN DefaultLimit ELSE IntArg(limit_raw)
    /\ pc' = "parsed"
    /\ UNCHANGED <<content, exc, ret, embedVars, storeVars, searchVars, limit_raw, visualize,
                   embeddings_file, perplexity, csv_exists, chunk, embed, chunk_size, query>>

\* cli.py 147-150: --visualize without --embeddings-file
VisualizeNoFile ==
    /\ pc = "parsed"
    /\ visualize
    /\ embeddings_file = NoPath
    /\ ret' = 1
    /\ pc' = "done"
    /\ UNCHANGED <<content, exc, embedVars, storeVars, searchVars, argVars>>

\* cli.py 152-164
VisualizeOk ==
    /\ pc = "parsed"
    /\ visualize
    /\ embeddings_file # NoPath
    /\ LET out == VisualizeOutcome(embeddings_file, perplexity, output, files, dirs)
       IN  /\ out.err = "none"
           /\ dirs' = out.dirs
           /\ files' = IF out.written THEN WriteFile(files, output, {"plot"}) ELSE files
    /\ ret' = 0
    /\ pc' = "done"
    /\ UNCHANGED <<content, exc, chunks, batch_size, output, i, results, calls, returned,
                   embeddings, save_called, loaded, storeVars, searchVars, argVars>>

VisualizeFail ==
    /\ pc = "parsed"
    /\ visualize
    /\ embeddings_file # NoPath
    /\ LET out == VisualizeOutcome(embeddings_file, perplexity, output, files, dirs)
       IN  /\ out.err # "none"
           /\ dirs' = out.dirs
           /\ exc' = out.err
    /\ pc' = "except"
    /\ UNCHANGED <<content, ret, chunks, batch_size, output, i, results, calls, returned,
                   embeddings, save_called, files, loaded, storeVars, searchVars, argVars>>

\* cli.py 167-169: the source file is not there
CsvNotFound ==
    /\ pc = "parsed"
    /\ ~visualize
    /\ ~csv_exists
    /\ ret' = 1
    /\ pc' = "done"
    /\ UNCHANGED <<content, exc, embedVars, storeVars, searchVars, argVars>>

\* cli.py 172: CablesContext(csv_file) loads the file
ContextOk ==
    /\ pc = "parsed"
    /\ ~visualize
    /\ csv_exists
    /\ LoadOutcome(csv).err = "none"
    /\ cables_df' = LoadOutcome(csv).df
    /\ table' = LoadOutcome(csv).df
    /\ pc' = "context"
    /\ UNCHANGED <<content, exc, ret, embedVars, csv, load_exc, prev_df, prev_table,
                   searchVars, argVars>>

ContextFail ==
    /\ pc = "parsed"
    /\ ~visualize
    /\ csv_exists
    /\ LoadOutcome(csv).err # "none"
    /\ load_exc' = LoadOutcome(csv).err
    /\ exc' = LoadOutcome(csv).err
    /\ pc' = "except"
    /\ UNCHANGED <<content, ret, embedVars, csv, cables_df, table, prev_df, prev_table,
                   searchVars, argVars>>

\* cli.py 175-177, 195: --chunk alone
ChunkOnly ==
    /\ pc = "context"
    /\ chunk
    /\ ~embed
    /\ ChunkAllOutcome(cables_df, chunk_size).err = "none"
    /\ chunks' = ChunkAllOutcome(cables_df, chunk_size).chunks
    /\ ret' = 0
    /\ pc' = "done"
    /\ UNCHANGED <<content, exc, batch_size, output, i, results, calls, returned, embeddings,
                   save_called, dirs, files, loaded, storeVars, searchVars, argVars>>

\* cli.py 177: chunk_all_cables raises
ChunkFail ==
    /\ pc = "context"
    /\ chunk \/ embed
    /\ ChunkAllOutcome(cables_df, chunk_size).err # "none"
    /\ exc' = ChunkAllOutcome(cables_df, chunk_size).err
    /\ pc' = "except"
    /\ UNCHANGED <<content, ret, embedVars, storeVars, searchVars, argVars>>

\* cli.py 177-184: --embed, the chunks are made and the model is loaded
ChunkAndLoadModel ==
    /\ pc = "context"
    /\ embed
    /\ ChunkAllOutcome(cables_df, chunk_size).err = "none"
    /\ chunks' = ChunkAllOutcome(cables_df, chunk_size).chunks
    /\ pc' = "embed"
    /\ UNCHANGED <<content, exc, ret, batch_size, output, i, results, calls, returned, embeddings,
                   save_called, dirs, files, loaded, storeVars, searchVars, argVars>>

\* cli.py 181: the model cannot be loaded
ModelLoadFail ==
    /\ pc = "context"
    /\ embed
    /\ ChunkAllOutcome(cables_df, chunk_size).err = "none"
    /\ chunks' = ChunkAllOutcome(cables_df, chunk_size).chunks
    /\ exc' = "EmbeddingBackendError"
    /\ pc' = "except"
    /\ UNCHANGED <<content, ret, batch_size, output, i, results, calls, returned, embeddings,
                   save_called, dirs, files, loaded, storeVars, searchVars, argVars>>

\* cli.py 198-199: --query
ExecuteQueryOk ==
    /\ pc = "context"
    /\ ~chunk /\ ~embed
    /\ query # NoQuery
    /\ ExecuteQueryOutcome(query, table.rows).err = "none"
    /\ result' = ExecuteQueryOutcome(query, table.rows).frame
    /\ searched' = TRUE
    /\ pc' = "output"
    /\ UNCHANGED <<content, exc, ret, embedVars, storeVars, filters, shown, argVars>>

ExecuteQueryFail ==
    /\ pc = "context"
    /\ ~chunk /\ ~embed
    /\ query # NoQuery
    /\ ExecuteQueryOutcome(query, table.rows).err # "none"
    /\ exc' = ExecuteQueryOutcome(query, table.rows).err
    /\ searched' = TRUE
    /\ pc' = "except"
    /\ UNCHANGED <<content, ret, embedVars, storeVars, filters, result, shown, argVars>>

\* cli.py 200-212: the filters, then the limit
SearchAndLimit ==
    /\ pc = "context"
    /\ ~chunk /\ ~embed
    /\ query = NoQuery
    /\ LET out == SearchOutcome(table.rows, filters)
       IN  /\ out.err = "none"
           /\ \E o \in OrderByDate(table.rows, out.match) :
                 result' = ApplyLimit(AsFrame(table.rows, o), limit)
    /\ searched' = TRUE
    /\ pc' = "output"
    /\ UNCHANGED <<content, exc, ret, embedVars, storeVars, filters, shown, argVars>>

SearchFail ==
    /\ pc = "context"
    /\ ~chunk /\ ~embed
    /\ query = NoQuery
    /\ SearchOutcome(table.rows, filters).err # "none"
    /\ exc' = SearchOutcome(table.rows, filters).err
    /\ searched' = TRUE
    /\ pc' = "except"
    /\ UNCHANGED <<content, ret, embedVars, storeVars, filters, result, shown, argVars>>

\* cli.py 215-217, 226: the rows are exported
ExportOk ==
    /\ pc = "output"
    /\ output # NoPath
    /\ ToCsvErr(output, dirs) = "none"
    /\ files' = WriteFile(files, output, Range(result))
    /\ shown' = result
    /\ ret' = 0
    /\ pc' = "done"
    /\ UNCHANGED <<content, exc, chunks, batch_size, output, i, results, calls, returned, embeddings,
                   save_called, dirs, loaded, storeVars, filters, searched, result, argVars>>

ExportFail ==
    /\ pc = "output"
    /\ output # NoPath
    /\ ToCsvErr(output, dirs) # "none"
    /\ exc' = ToCsvErr(output, dirs)
    /\ pc' = "except"
    /\ UNCHANGED <<content, ret, embedVars, storeVars, searchVars, argVars>>

\* cli.py 218-226: the rows are printed
PrintResult ==
    /\ pc = "output"
    /\ output = NoPath
    /\ shown' = result
    /\ ret' = 0
    /\ pc' = "done"
    /\ UNCHANGED <<content, exc, embedVars, storeVars, filters, searched, result, argVars>>

(***************************************************************************)
(* visualization.py: load_embeddings, on the path the run wrote to.        *)
(***************************************************************************)
LoadEmbeddings ==
    /\ pc = "done"
    /\ \E f \in files :
          /\ f.path = output
          /\ loaded' = f.rows
    /\ pc' = "loaded"
    /\ UNCHANGED <<content, chunks, batch_size, output, i, results, calls, returned,
                   embeddings, exc, save_called, dirs, files, ret>>
    /\ UNCHANGED <<content, storeVars, searchVars, argVars>>

(***************************************************************************)
(* The --embed run of main from the call of generate_embeddings_for_chunks *)
(* on, for every chunk list, batch size and output path.                   *)
(***************************************************************************)
InitEmbed ==
    /\ content = <<>>
    /\ pc = "embed"
    /\ chunks \in ChunkLists
    /\ batch_size \in 1..MaxBatch
    /\ output \in OutputPaths \cup {NoPath}
    /\ i = 0
    /\ results = {}
    /\ calls = <<>>
    /\ returned = FALSE
    /\ embeddings = {}
    /\ exc = "none"
    /\ save_called = FALSE
    /\ dirs = ExistingDirs
    /\ files = {}
    /\ loaded = {}
    /\ ret = NoRet
    /\ StoreIdle
    /\ SearchIdle
    /\ ArgsIdle

NextEmbed ==
    \/ EmbedBatchOk
    \/ EmbedBatchFail
    \/ EmbedReturn
    \/ SaveEmbeddings
    \/ SaveEmbeddingsFail
    \/ NoOutputWarning
    \/ MainExcept
    \/ LoadEmbeddings

SpecEmbed == InitEmbed /\ [][NextEmbed]_vars

(***************************************************************************)
(* Properties of the embedding pipeline.                                   *)
(***************************************************************************)
CeilDiv(n, b) == (n + b - 1) \div b

\* the texts of chunks[(k-1)*b .. min(k*b, n)-1] (0-based), k counted from 1
ExpectedTexts(k) ==
    [j \in 1..(Min(k * batch_size, Len(chunks)) - (k - 1) * batch_size) |->
        chunks[(k - 1) * batch_size + j].text]

\* C1: the backend is called ceil(n/b) times, one call after another, call k
\* receiving exactly the texts of the k-th consecutive group of b chunks (the
\* last group possibly smaller), so no text is sent twice or skipped.
C1_SequentialBatches ==
    /\ Len(calls) <= CeilDiv(Len(chunks), batch_size)
    /\ \A k \in 1..Len(calls) : calls[k] = ExpectedTexts(k)
    /\ returned => Len(calls) = CeilDiv(Len(chunks), batch_size)

C1_Witness ==
    /\ returned
    /\ Len(chunks) = 3
    /\ batch_size = 2
    /\ Len(calls) = 2
    /\ Len(calls[2]) = 1
    /\ chunks[1].text # chunks[2].text

\* the (cable_id, chunk_id) pairs of the input chunks are pairwise distinct
DistinctPairs ==
    \A p, q \in 1..Len(chunks) :
        p # q => <<chunks[p].cable_id, chunks[p].chunk_id>>
                     # <<chunks[q].cable_id, chunks[q].chunk_id>>

\* one entry per input chunk, the chunk at position p (1-based) bound to the
\* vector at index (p-1) mod b of call (p-1) div b, and distinct pairs under
\* distinct keys
AlignedMapping ==
    /\ Cardinality(embeddings) = Len(chunks)
    /\ \A p \in 1..Len(chunks) :
          [key |-> PyStr(chunks[p].cable_id) \o <<"_">> \o DecStr(chunks[p].chunk_id),
           vec |-> <<(p - 1) \div batch_size, (p - 1) % batch_size>>] \in embeddings
    /\ \A e1, e2 \in embeddings : e1.key = e2.key => e1 = e2

\* C2 as stated: for every chunk list, when every backend call succeeds the
\* returned mapping has one entry per input chunk, each bound to the vector
\* the backend returned for that chunk's position.
C2_Original == returned => AlignedMapping

\* C2 amended: the same, for chunk lists whose (cable_id, chunk_id) pairs are
\* pairwise distinct.
C2_AlignedWhenDistinct == (returned /\ DistinctPairs) => AlignedMapping

C2_Witness ==
    /\ returned
    /\ DistinctPairs
    /\ Len(chunks) = 3
    /\ batch_size = 2
    /\ \E p \in 1..3 : chunks[p].cable_id = StrId(<<"a", "_", "b">>)
    /\ chunks[1].cable_id = chunks[2].cable_id

\* C3: once the backend has failed for a batch, no later batch is sent, no
\* mapping is returned (the entries of completed batches included),
\* save_embeddings is never called, no file is written and main returns 1.
C3_BackendFailureFailsRun ==
    exc = "EmbeddingBackendError" =>
        /\ Len(calls) = (i \div batch_size) + 1
        /\ ~returned
        /\ embeddings = {}
        /\ ~save_called
        /\ files = {}
        /\ dirs = ExistingDirs
        /\ pc \in {"except", "done"}
        /\ ret = IF pc = "done" THEN 1 ELSE NoRet

C3_Witness ==
    /\ exc = "EmbeddingBackendError"
    /\ pc = "done"
    /\ ret = 1
    /\ Len(calls) = 2
    /\ Len(chunks) = 3
    /\ results # {}
    /\ output # NoPath

\* the (cable_id, chunk_id, embedding) triples of the chunks that were embedded
EmbeddedTriples ==
    {[cable_id |-> chunks[x[1]].cable_id,
      chunk_id |-> chunks[x[1]].chunk_id,
      embedding |-> x[2].vec] :
        x \in {y \in (1..Len(chunks)) \X embeddings :
                  y[2].key = PyStr(chunks[y[1]].cable_id) \o <<"_">>
                                 \o DecStr(chunks[y[1]].chunk_id)}}

\* output paths with a directory part that exists or can be created
PathsWithUsableDir == {<<"out", "/", "e.pkl">>, <<"new", "/", "e.pkl">>}

\* C4: round trip.  For every mapping generate_embeddings_for_chunks
\* produces, whatever the cable ids, save_embeddings to a usable path succeeds
\* and load_embeddings on that path yields exactly the triples of the
\* embedded chunks, with the chunks' own cable_id and chunk_id.
C4_RoundTrip ==
    /\ (save_called /\ output \in PathsWithUsableDir) =>
          /\ exc = "none"
          /\ \E f \in files : f.path = output /\ f.rows = EmbeddedTriples
    /\ pc = "loaded" => loaded = EmbeddedTriples

\* the directory of the path is the working directory, exists, or can be made
DirAvailable(path) ==
    \/ Len(path) = 1
    \/ SubSeq(path, 1, Len(path) - 2) \in ExistingDirs
    \/ /\ Len(path) = 3
       /\ SubSeq(path, 1, 1) \notin ExistingDirs

\* C10: save_embeddings writes one flat record per entry of the mapping for
\* every output path whose directory exists or can be created, a bare file
\* name included, and fails only with an I/O error when the directory
\* cannot be created.
C10_SaveWritesEveryEntry ==
    save_called =>
        IF DirAvailable(output)
        THEN /\ exc = "none"
             /\ \E f \in files :
                   /\ f.path = output
                   /\ Cardinality(f.rows) = Cardinality(embeddings)
                   /\ \A e \in embeddings : \E r \in f.rows : r.embedding = e.vec
        ELSE exc \in {"FileNotFoundError", "PermissionError"}

(***************************************************************************)
(* context.py: load_data called on a context, any number of times, for     *)
(* every source file of the bounded shapes.                                *)
(***************************************************************************)
MaxRows == 3

\* rows of 7, 8 or 9 fields; the fields of a row are told apart by row length
WidthsOf == {7, 8, 9}

FillerRow(w) == [c \in 1..w |-> <<"w">> \o DecStr(w)]

ShapedFiles == {[r \in 1..Len(ws) |-> FillerRow(ws[r])] : ws \in SeqsUpTo(WidthsOf, MaxRows)}

\* load_data(path) returns: the frame is stored and registered
LoadDataOk ==
    /\ pc = "store"
    /\ \E f \in ShapedFiles :
          /\ LoadOutcome(f).err = "none"
          /\ csv' = f
          /\ cables_df' = LoadOutcome(f).df
          /\ table' = LoadOutcome(f).df
    /\ load_exc' = "none"
    /\ prev_df' = cables_df
    /\ prev_table' = table
    /\ UNCHANGED <<content, pc, exc, ret, embedVars, searchVars, argVars>>

\* load_data(path) raises before anything is stored
LoadDataFail ==
    /\ pc = "store"
    /\ \E f \in ShapedFiles :
          /\ LoadOutcome(f).err # "none"
          /\ csv' = f
          /\ load_exc' = LoadOutcome(f).err
    /\ prev_df' = cables_df
    /\ prev_table' = table
    /\ UNCHANGED <<content, pc, exc, ret, embedVars, cables_df, table, searchVars, argVars>>

InitLoad ==
    /\ content = <<>>
    /\ pc = "store"
    /\ exc = "none"
    /\ ret = NoRet
    /\ EmbedIdle
    /\ StoreIdle
    /\ SearchIdle
    /\ ArgsIdle

NextLoad == LoadDataOk \/ LoadDataFail

SpecLoad == InitLoad /\ [][NextLoad]_vars

\* C5: loading a file in which some row does not have exactly 8 columns
\* fails, wherever the row is and whether it is short or long, and the failed
\* load leaves the registered table and cables_df as they were.
C5_MalformedRejected ==
    (\E r \in 1..Len(csv) : Len(csv[r]) # NCols) =>
        /\ load_exc # "none"
        /\ cables_df = prev_df
        /\ table = prev_table

(***************************************************************************)
(* context.py: search_cables called on a loaded context, for every table   *)
(* and every filter combination of the bounded sets.  A search leaves the  *)
(* context as it was, so one call per run shows all there is.              *)
(***************************************************************************)
MaxSearchRows == 2

\* a row of the source file with the columns the queries read
MkRow(id, date, source, classification, body) ==
    <<id, date, <<"r">>, source, classification, <<"x">>, <<"h">>, body>>

SearchFields ==
    {<<"a">>, <<"b">>} \X {<<"a">>, <<"b">>} \X {<<"a">>, <<Quote>>} \X {<<"a">>, <<"a", "b">>}

SearchFiles ==
    {[r \in 1..Len(l) |-> MkRow(<<"c">> \o DecStr(r), l[r][1], l[r][2], l[r][3], l[r][4])] :
        l \in SeqsUpTo(SearchFields, MaxSearchRows) \ {<<>>}}

TextValues == {NoFilter, <<"a">>, <<"b">>, <<"%">>, <<"_">>, <<Quote>>}

DateFromValues == {NoFilter, <<"b">>}

DateToValues == {NoFilter, <<"a">>}

ClassificationValues == {NoFilter, <<"a">>, <<Quote>>, <<Quote, Quote>>}

SourceValues == {NoFilter, <<"a">>}

\* the filter combinations searched: at most one value with an unbalanced
\* quote (how the engine reads a statement in which two such values pair up
\* is not modelled)
FilterSets ==
    {f \in [text : TextValues, date_from : DateFromValues, date_to : DateToValues,
            classification : ClassificationValues, source : SourceValues] :
        Balanced(f.text) \/ Balanced(f.classification)}

\* search_cables(...) returns the matching rows in date order
SearchCablesOk ==
    /\ pc = "search"
    /\ \E f \in FilterSets :
          LET out == SearchOutcome(table.rows, f)
          IN  /\ out.err = "none"
              /\ filters' = f
              /\ \E o \in OrderByDate(table.rows, out.match) :
                    result' = AsFrame(table.rows, o)
    /\ searched' = TRUE
    /\ exc' = "none"
    /\ pc' = "searched"
    /\ UNCHANGED <<content, ret, embedVars, storeVars, shown, argVars>>

\* search_cables(...) raises the engine's error
SearchCablesFail ==
    /\ pc = "search"
    /\ \E f \in FilterSets :
          /\ SearchOutcome(table.rows, f).err # "none"
          /\ filters' = f
          /\ exc' = SearchOutcome(table.rows, f).err
    /\ searched' = TRUE
    /\ result' = <<>>
    /\ pc' = "searched"
    /\ UNCHANGED <<content, ret, embedVars, storeVars, shown, argVars>>

InitSearch ==
    /\ content = <<>>
    /\ pc = "search"
    /\ exc = "none"
    /\ ret = NoRet
    /\ EmbedIdle
    /\ csv \in SearchFiles
    /\ cables_df = LoadOutcome(csv).df
    /\ table = LoadOutcome(csv).df
    /\ load_exc = "none"
    /\ prev_df = NoDf
    /\ prev_table = NoDf
    /\ SearchIdle
    /\ ArgsIdle

NextSearch == SearchCablesOk \/ SearchCablesFail

SpecSearch == InitSearch /\ [][NextSearch]_vars

\* the positions, in the table, of the rows of the result
ResultPos == {result[k].pos : k \in 1..Len(result)}

Supplied == {n \in {"text", "date_from", "date_to", "classification", "source"} :
                filters[n] # NoFilter}

\* the rows search_cables returns when only the filter n is supplied
Alone(n) == SearchOutcome(table.rows, [NoFilters EXCEPT ![n] = filters[n]]).match

\* C6: search_cables returns every row when no filter is supplied, with only
\* classification=c exactly the rows whose classification equals c, and with
\* any subset of the filters the intersection of what each returns alone.
C6_ConjunctionOfSupplied ==
    searched =>
        /\ Supplied = {} => ResultPos = 1..Len(table.rows)
        /\ Supplied = {"classification"} =>
              ResultPos = {r \in 1..Len(table.rows) :
                              table.rows[r][ColClassification] = filters.classification}
        /\ ResultPos = {r \in 1..Len(table.rows) : \A n \in Supplied : r \in Alone(n)}

\* t occurs in v as a contiguous run of characters
Contains(v, t) == \E k \in 1..(Len(v) - Len(t) + 1) : SubSeq(v, k, k + Len(t) - 1) = t

\* C7: with the text filter t alone, whatever characters t holds, the rows
\* returned are exactly the rows whose content contains t literally.
C7_LiteralSubstring ==
    (searched /\ Supplied = {"text"}) =>
        ResultPos = {r \in 1..Len(table.rows) :
                        Contains(table.rows[r][ColContent], filters.text)}

(***************************************************************************)
(* A run of main, for every command line and source file of the bounded    *)
(* sets.  The options a mode does not read are left at their defaults.     *)
(***************************************************************************)
LimitArgs == {NoArg, <<"0">>, <<"1">>, <<"-", "1">>, <<"x">>}

\* a file with three well-formed rows, one whose only id holds the separator
\* of the embedding keys, one whose second row is short, one of 9 columns
CleanFile ==
    <<MkRow(<<"a">>, <<"b">>, <<"a">>, <<"a">>, <<"a", "b">>),
      MkRow(<<"b">>, <<"a">>, <<"b">>, <<"a">>, <<"a">>),
      MkRow(<<"c">>, <<"a">>, <<"a">>, <<"b">>, <<"b">>)>>

UnderscoreFile == <<MkRow(<<"a", "_", "b">>, <<"a">>, <<"a">>, <<"a">>, <<"a", ".", "b">>)>>

ShortRowFile ==
    <<MkRow(<<"a">>, <<"a">>, <<"a">>, <<"a">>, <<"a">>),
      <<<<"b">>, <<"b">>, <<"r">>, <<"a">>, <<"a">>, <<"x">>, <<"h">>>>>>

WideFile == <<MkRow(<<"a">>, <<"a">>, <<"a">>, <<"a">>, <<"a">>) \o <<<<"z">>>>>>

MainFiles == {CleanFile, UnderscoreFile, ShortRowFile, WideFile}

MainFilterSets ==
    {NoFilters,
     [NoFilters EXCEPT !.text = <<"a">>],
     [NoFilters EXCEPT !.text = <<"%">>],
     [NoFilters EXCEPT !.classification = <<"a">>],
     [NoFilters EXCEPT !.classification = <<Quote>>],
     [NoFilters EXCEPT !.source = <<"a">>, !.date_from = <<"b">>]}

DefaultBatchSize == 8

\* an embedding file saved by an earlier run, and a path where there is none
SavedEmbeddings ==
    [path |-> <<"out", "/", "e.pkl">>,
     rows |-> {[cable_id |-> StrId(<<"a">>), chunk_id |-> 0, embedding |-> <<0, 0>>],
               [cable_id |-> StrId(<<"a">>), chunk_id |-> 1, embedding |-> <<0, 1>>]}]

EmbeddingsFileArgs == {NoPath, <<"out", "/", "e.pkl">>, <<"out", "/", "none.pkl">>}

InitMain ==
    /\ content = <<>>
    /\ pc = "start"
    /\ exc = "none"
    /\ ret = NoRet
    /\ limit_raw \in LimitArgs
    /\ limit = DefaultLimit
    /\ visualize \in BOOLEAN
    /\ output \in OutputPaths \cup {NoPath}
    /\ IF visualize
       THEN /\ embeddings_file \in EmbeddingsFileArgs
            /\ perplexity \in {1, DefaultPerplexity}
            /\ csv_exists = TRUE
            /\ csv = CleanFile
            /\ chunk = FALSE
            /\ embed = FALSE
            /\ chunk_size = DefaultChunkSize
            /\ batch_size = DefaultBatchSize
            /\ query = NoQuery
            /\ filters = NoFilters
       ELSE /\ embeddings_file = NoPath
            /\ perplexity = DefaultPerplexity
            /\ csv_exists \in BOOLEAN
            /\ csv \in IF csv_exists THEN MainFiles ELSE {<<>>}
            /\ chunk \in BOOLEAN
            /\ embed \in BOOLEAN
            /\ chunk_size \in {0, 1, DefaultChunkSize}
            /\ batch_size \in {1, 2}
            /\ query \in {NoQuery, GoodQuery, BadQuery}
            /\ filters \in MainFilterSets
    /\ chunks = <<>>
    /\ i = 0
    /\ results = {}
    /\ calls = <<>>
    /\ returned = FALSE
    /\ embeddings = {}
    /\ save_called = FALSE
    /\ dirs = ExistingDirs
    /\ files = {SavedEmbeddings}
    /\ loaded = {}
    /\ cables_df = NoDf
    /\ table = NoDf
    /\ load_exc = "none"
    /\ prev_df = NoDf
    /\ prev_table = NoDf
    /\ searched = FALSE
    /\ result = <<>>
    /\ shown = <<>>

NextMain ==
    \/ ParseArgsReject
    \/ ParseArgsOk
    \/ VisualizeNoFile
    \/ VisualizeOk
    \/ VisualizeFail
    \/ CsvNotFound
    \/ ContextOk
    \/ ContextFail
    \/ ChunkOnly
    \/ ChunkFail
    \/ ChunkAndLoadModel
    \/ ModelLoadFail
    \/ EmbedBatchOk
    \/ EmbedBatchFail
    \/ EmbedReturn
    \/ SaveEmbeddings
    \/ SaveEmbeddingsFail
    \/ NoOutputWarning
    \/ ExecuteQueryOk
    \/ ExecuteQueryFail
    \/ SearchAndLimit
    \/ SearchFail
    \/ ExportOk
    \/ ExportFail
    \/ PrintResult
    \/ MainExcept

SpecMain == InitMain /\ [][NextMain]_vars

\* the row passes every supplied filter, each read as the specification
\* states it: literal containment for text and source, equality for
\* classification, the string order for the dates
Satisfies(row, f) ==
    /\ f.text = NoFilter \/ (row[ColContent] # NaN /\ Contains(row[ColContent], f.text))
    /\ f.date_from = NoFilter \/ (row[ColDate] # NaN /\ StrLe(f.date_from, row[ColDate]))
    /\ f.date_to = NoFilter \/ (row[ColDate] # NaN /\ StrLe(row[ColDate], f.date_to))
    /\ f.classification = NoFilter \/ row[ColClassification] = f.classification
    /\ f.source = NoFilter \/ (row[ColSource] # NaN /\ Contains(row[ColSource], f.source))

\* a run of the query and filter branch that returned 0
RowsShown == pc = "done" /\ ret = 0 /\ ~visualize /\ ~chunk /\ ~embed

\* C8: without --query, for every --limit N at most N rows are shown, each
\* satisfies all supplied filters, and they are the first rows of the
\* filtered result in ascending date order; with --query the limit does not
\* change the rows shown.
C8_LimitTruncates ==
    /\ (RowsShown /\ query = NoQuery) =>
          /\ Len(shown) <= limit
          /\ \A k \in 1..Len(shown) : Satisfies(table.rows[shown[k].pos], filters)
          /\ \E o \in OrderByDate(table.rows,
                                  {r \in 1..Len(table.rows) : Satisfies(table.rows[r], filters)}) :
                /\ Len(shown) <= Len(o)
                /\ \A k \in 1..Len(shown) : shown[k].pos = o[k]
    /\ (RowsShown /\ query # NoQuery) =>
          [k \in 1..Len(shown) |-> shown[k].pos] = [r \in 1..Len(table.rows) |-> r]

\* some row of the source file does not have exactly 8 columns
MalformedInput == \E r \in 1..Len(csv) : Len(csv[r]) # NCols

\* C9: no error leaves main as an exception or as another exit status; main
\* returns 1 on every error (missing source file, malformed input,
\* --visualize without --embeddings-file, query error, backend failure,
\* unwritable output) and 0 otherwise, and a run with only a valid source
\* file, or with a valid source file and --search, returns 0.
C9_ExitCodes ==
    /\ pc # "raised"
    /\ pc = "done" =>
          /\ ret \in {0, 1}
          /\ ret = 1 <=> \/ exc # "none"
                         \/ visualize /\ embeddings_file = NoPath
                         \/ ~visualize /\ ~csv_exists
                         \/ ~visualize /\ csv_exists /\ MalformedInput
          /\ ( /\ ~visualize /\ csv_exists /\ ~MalformedInput
               /\ ~chunk /\ ~embed /\ query = NoQuery /\ output = NoPath
               /\ filters \in {NoFilters, [NoFilters EXCEPT !.text = <<"a">>]} ) => ret = 0

(***************************************************************************)
(* The chunker as a function: chunk_cable on every content string and      *)
(* chunk size of the bounded sets.                                         *)
(***************************************************************************)
MaxContentLen == 5

MaxChunkSize == 3

ContentChars == {"a", ".", Newline}

Contents == SeqsUpTo(ContentChars, MaxContentLen)

ChunkCableId == StrId(<<"a">>)

ChunkCableMetadata == [date |-> <<"d">>, source |-> <<"s">>, classification |-> <<"c">>]

\* chunk_cable(cable_id, content, chunk_size, metadata) returns its chunks
ChunkCableOk ==
    /\ pc = "chunk_cable"
    /\ chunk_size > 0
    /\ chunks' = ChunkCable(ChunkCableId, content, chunk_size, ChunkCableMetadata)
    /\ pc' = "chunked"
    /\ UNCHANGED <<content, exc, ret, batch_size, output, i, results, calls, returned,
                   embeddings, save_called, dirs, files, loaded, storeVars, searchVars, argVars>>

\* a chunk size that is not positive is refused
ChunkCableInvalid ==
    /\ pc = "chunk_cable"
    /\ chunk_size <= 0
    /\ exc' = "InvalidConfiguration"
    /\ pc' = "raised"
    /\ UNCHANGED <<content, ret, embedVars, storeVars, searchVars, argVars>>

InitChunkCable ==
    /\ pc = "chunk_cable"
    /\ exc = "none"
    /\ ret = NoRet
    /\ content \in Contents
    /\ EmbedIdle
    /\ StoreIdle
    /\ SearchIdle
    /\ limit_raw = NoArg
    /\ limit = DefaultLimit
    /\ visualize = FALSE
    /\ embeddings_file = NoPath
    /\ perplexity = DefaultPerplexity
    /\ csv_exists = FALSE
    /\ chunk = FALSE
    /\ embed = FALSE
    /\ chunk_size \in 0..MaxChunkSize
    /\ query = NoQuery

NextChunkCable ==
    \/ ChunkCableOk
    \/ ChunkCableInvalid

SpecChunkCable == InitChunkCable /\ [][NextChunkCable]_vars

\* the chunks that hold the character at position p of content
ChunksHolding(p) ==
    {k \in 1..Len(chunks) : chunks[k].start_offset < p /\ p <= chunks[k].end_offset}

\* C11: for every content and positive chunk_size the chunks of one cable
\* partition the content: chunk_id runs 0..n-1 in emission order,
\* start_offset increases strictly, each chunk starts where the previous one
\* ended, every character lies in exactly one chunk; empty content gives no
\* chunk and content shorter than chunk_size gives one chunk, the whole content.
C11_ChunksPartitionContent ==
    pc = "chunked" =>
        LET n == Len(chunks)
        IN  /\ \A k \in 1..n : chunks[k].chunk_id = k - 1
            /\ \A k \in 1..(n - 1) : chunks[k].start_offset < chunks[k + 1].start_offset
            /\ \A k \in 1..(n - 1) : chunks[k + 1].start_offset = chunks[k].end_offset
            /\ n > 0 => chunks[1].start_offset = 0 /\ chunks[n].end_offset = Len(content)
            /\ \A p \in 1..Len(content) : Cardinality(ChunksHolding(p)) = 1
            /\ content = <<>> => n = 0
            /\ (content # <<>> /\ Len(content) < chunk_size) =>
                  n = 1 /\ chunks[1].text = content

\* a content cut into three chunks or more, one of them extended past
\* chunk_size to a boundary
C11_Witness ==
    /\ pc = "chunked"
    /\ Len(chunks) >= 3
    /\ \E k \in 1..Len(chunks) : Len(chunks[k].text) > chunk_size

\* a content shorter than chunk_size, returned as one chunk
C11_WitnessShort ==
    /\ pc = "chunked"
    /\ content # <<>>
    /\ Len(content) < chunk_size
    /\ Len(chunks) = 1

(***************************************************************************)
(* chunk_all_cables on a constructed context: called directly, on a        *)
(* context with or without data, and from main after the context has been  *)
(* built from the source file.  The filter flags of the command line vary. *)
(***************************************************************************)
DigitsFile ==
    <<MkRow(<<"7">>, <<"b">>, <<"s">>, <<"c">>, <<"a", Newline, "a">>),
      MkRow(<<"1", "2">>, <<"a">>, <<"t">>, <<"d">>, <<"a", ".", "a", "a">>)>>

\* the source files CablesContext(path) loads without raising
ChunkAllFiles == {f \in MainFiles \cup {DigitsFile} : LoadOutcome(f).err = "none"}

\* context.chunk_all_cables(chunk_size) returns the chunk list
ChunkAllCablesOk ==
    /\ pc = "api"
    /\ ChunkAllOutcome(cables_df, chunk_size).err = "none"
    /\ chunks' = ChunkAllOutcome(cables_df, chunk_size).chunks
    /\ pc' = "chunked"
    /\ UNCHANGED <<content, exc, ret, batch_size, output, i, results, calls, returned,
                   embeddings, save_called, dirs, files, loaded, storeVars, searchVars, argVars>>

\* context.chunk_all_cables(chunk_size) raises
ChunkAllCablesFail ==
    /\ pc = "api"
    /\ ChunkAllOutcome(cables_df, chunk_size).err # "none"
    /\ exc' = ChunkAllOutcome(cables_df, chunk_size).err
    /\ pc' = "raised"
    /\ UNCHANGED <<content, ret, embedVars, storeVars, searchVars, argVars>>

InitChunkAll ==
    /\ content = <<>>
    /\ exc = "none"
    /\ ret = NoRet
    /\ EmbedIdle
    /\ pc \in {"api", "context"}
    /\ csv \in ChunkAllFiles \cup IF pc = "api" THEN {<<>>} ELSE {}
    /\ csv_exists = (csv # <<>>)
    /\ cables_df = IF csv_exists THEN LoadOutcome(csv).df ELSE NoDf
    /\ table = cables_df
    /\ load_exc = "none"
    /\ prev_df = NoDf
    /\ prev_table = NoDf
    /\ filters \in MainFilterSets
    /\ searched = FALSE
    /\ result = <<>>
    /\ shown = <<>>
    /\ limit_raw = NoArg
    /\ limit = DefaultLimit
    /\ visualize = FALSE
    /\ embeddings_file = NoPath
    /\ perplexity = DefaultPerplexity
    /\ chunk \in BOOLEAN
    /\ embed \in BOOLEAN
    /\ pc = "context" => chunk \/ embed
    /\ pc = "api" => chunk /\ ~embed
    /\ chunk_size \in 0..MaxChunkSize
    /\ query = NoQuery

NextChunkAll ==
    \/ ChunkAllCablesOk
    \/ ChunkAllCablesFail
    \/ ChunkOnly
    \/ ChunkFail
    \/ ChunkAndLoadModel
    \/ MainExcept

SpecChunkAll == InitChunkAll /\ [][NextChunkAll]_vars

\* the chunks of row r of the loaded table, and how many chunks the rows
\* before row r have
PartOf(r) ==
    ChunkCable(IdOf(cables_df.rows, r), cables_df.rows[r][ColContent], chunk_size,
               MetadataOf(cables_df.rows[r]))

RECURSIVE ChunksBefore(_)
ChunksBefore(r) == IF r <= 1 THEN 0 ELSE ChunksBefore(r - 1) + Len(PartOf(r - 1))

\* the row whose chunk sequence holds position p of the concatenation
RowAt(p) ==
    CHOOSE r \in 1..Len(cables_df.rows) :
        ChunksBefore(r) < p /\ p <= ChunksBefore(r) + Len(PartOf(r))

\* chunk_all_cables has returned its list
ChunksMade == pc \in {"chunked", "embed"} \/ (pc = "done" /\ ret = 0)

ChunksInRowOrder ==
    ChunksMade =>
        /\ cables_df.some
        /\ Len(chunks) = ChunksBefore(Len(cables_df.rows) + 1)
        /\ \A p \in 1..Len(chunks) :
              LET r == RowAt(p)
              IN  /\ chunks[p] = PartOf(r)[p - ChunksBefore(r)]
                  /\ chunks[p].cable_id = IdOf(cables_df.rows, r)
                  /\ chunks[p].metadata.date = cables_df.rows[r][ColDate]
                  /\ chunks[p].metadata.source = cables_df.rows[r][ColSource]
                  /\ chunks[p].metadata.classification = cables_df.rows[r][ColClassification]

\* C12: chunk_all_cables passes once over every loaded row in row order,
\* whatever filter flags were given: its result is the concatenation in row
\* order of each cable's chunk sequence, each chunk carries the id of its own
\* row and that row's date, source and classification, the loaded table is
\* left unchanged, and the call raises when no data has been loaded.
C12_OnePassOverAllRows ==
    /\ []ChunksInRowOrder
    /\ [][/\ cables_df' = cables_df
          /\ table' = table
          /\ (pc = "api" /\ ~cables_df.some) => (pc' = "raised" /\ exc' = "ValueError")]_vars

\* chunks made from a table of several rows while a filter flag was given
\* that rejects some row
C12_Witness ==
    /\ ChunksMade
    /\ Len(cables_df.rows) >= 2
    /\ filters # NoFilters
    /\ \E r \in 1..Len(cables_df.rows) : ~Satisfies(cables_df.rows[r], filters)
    /\ \E p, q \in 1..Len(chunks) : chunks[p].metadata # chunks[q].metadata

====
